---- MODULE Spec2Model ----
(***************************************************************************)
(* Model of redash/query_runner/python.py: the Python query runner.        *)
(*                                                                         *)
(*   - CustomPrint, the sink that collects the script's print output;      *)
(*   - Python.__init__ / Python.custom_import, the import allow-list;      *)
(*   - Python.run_query, one compile-execute-serialize cycle;              *)
(*   - Python.df_from_result / Python.result_from_df, the conversion       *)
(*     between the wire table and the pandas DataFrame.                    *)
(*                                                                         *)
(* Python's None is the empty tuple <<>> wherever a value is optional, and *)
(* a present value v is <<v>>.  A text is a sequence of characters.        *)
(***************************************************************************)
EXTENDS Integers, Sequences, FiniteSets, TLC

VARIABLES
    enabled,          \* CustomPrint.enabled
    lines,            \* CustomPrint.lines
    written,          \* history: every write() call, with the flag it met
    allowed_modules,  \* Python._allowed_modules: dict name -> module or None
    next_handle,      \* serial number of the next module object created
    loads,            \* history: per name, the import_module calls that loaded
    last_import,      \* history: the last custom_import call and its outcome
    ncalls,           \* number of operations performed on the instance
    config,           \* the configuration the instance was constructed with
    last_run,         \* history: the last run_query call and its outcome
    phase,            \* serializer: "wire", "df", "out"
    wire,             \* serializer: the wire table handed to df_from_result
    df,               \* serializer: the DataFrame
    out               \* serializer: what result_from_df returned or raised

vars == <<enabled, lines, written, allowed_modules, next_handle, loads,
          last_import, ncalls, config, last_run, phase, wire, df, out>>

sinkVars == <<enabled, lines, written>>
importVars == <<allowed_modules, next_handle, loads, last_import>>
serVars == <<phase, wire, df, out>>

None == <<>>

(***************************************************************************)
(* Bounds.                                                                 *)
(***************************************************************************)
MaxWrites == 3
MaxImports == 4
MaxQueryLen == 3
MaxRuns == 2

(***************************************************************************)
(* Texts.                                                                  *)
(***************************************************************************)
Whitespace == {" ", "\n"}

\* The texts handed to write(): empty, blank, and with visible characters.
Texts ==
    { <<>>, <<" ">>, <<"\n">>, <<"a">>, <<" ", "b">>, <<"a", "\n">> }

RECURSIVE lstrip(_)
lstrip(text) ==
    IF text # <<>> /\ Head(text) \in Whitespace THEN lstrip(Tail(text)) ELSE text

RECURSIVE rstrip(_)
rstrip(text) ==
    IF text # <<>> /\ text[Len(text)] \in Whitespace
    THEN rstrip(SubSeq(text, 1, Len(text) - 1))
    ELSE text

\* str.strip()
strip(text) == lstrip(rstrip(text))

\* Python truthiness of a str
truthy(text) == text # <<>>

(***************************************************************************)
(* CustomPrint.  A sink is the record [enabled, lines].                    *)
(***************************************************************************)
CustomPrint_init == [enabled |-> TRUE, lines |-> <<>>]

write_unfiltered(sink, text) ==
    IF sink.enabled
    THEN [sink EXCEPT !.lines = Append(@, text)]
    ELSE sink

write(sink, text) ==
    IF sink.enabled
    THEN IF truthy(text) /\ truthy(strip(text))
         THEN [sink EXCEPT !.lines = Append(@, text)]
         ELSE sink
    ELSE sink

enable(sink) == [sink EXCEPT !.enabled = TRUE]

disable(sink) == [sink EXCEPT !.enabled = FALSE]

\* CustomPrint._call_print(*args): print(*args, file=self) writes the
\* arguments separated by " " and then the line end.
RECURSIVE write_args(_, _)
write_args(sink, args) ==
    IF args = <<>> THEN sink
    ELSE IF Len(args) = 1 THEN write(sink, Head(args))
    ELSE write_args(write(write(sink, Head(args)), <<" ">>), Tail(args))

call_print(sink, args) == write(write_args(sink, args), <<"\n">>)

Sink == [enabled |-> enabled, lines |-> lines]

Write(text) ==
    /\ Len(written) < MaxWrites
    /\ LET s == write(Sink, text) IN
         /\ enabled' = s.enabled
         /\ lines' = s.lines
    /\ written' = Append(written, [text |-> text, enabled |-> enabled])

Enable ==
    /\ enabled' = enable(Sink).enabled
    /\ lines' = enable(Sink).lines
    /\ UNCHANGED written

Disable ==
    /\ enabled' = disable(Sink).enabled
    /\ lines' = disable(Sink).lines
    /\ UNCHANGED written

InitSink ==
    /\ enabled = CustomPrint_init.enabled
    /\ lines = CustomPrint_init.lines
    /\ written = <<>>
    /\ allowed_modules = <<>>
    /\ next_handle = 1
    /\ loads = <<>>
    /\ last_import = None
    /\ ncalls = 0
    /\ config = <<>>
    /\ last_run = None
    /\ phase = "idle"
    /\ wire = None
    /\ df = None
    /\ out = None

NextSink ==
    \/ \E text \in Texts :
         Write(text) /\ UNCHANGED <<importVars, ncalls, config, last_run, serVars>>
    \/ Enable /\ UNCHANGED <<importVars, ncalls, config, last_run, serVars>>
    \/ Disable /\ UNCHANGED <<importVars, ncalls, config, last_run, serVars>>

SpecSink == InitSink /\ [][NextSink]_vars

(***************************************************************************)
(* C9: the buffer is, at every moment, the ordered subsequence of the      *)
(* texts that were written while the sink was enabled and that hold a      *)
(* non-whitespace character; so write appends exactly in that case, and    *)
(* enable/disable never change the buffer.                                 *)
(***************************************************************************)
NonBlank(text) == \E i \in 1..Len(text) : text[i] \notin Whitespace

RECURSIVE Captured(_)
Captured(history) ==
    IF history = <<>> THEN <<>>
    ELSE LET w == history[Len(history)]
             before == Captured(SubSeq(history, 1, Len(history) - 1))
         IN IF w.enabled /\ NonBlank(w.text) THEN Append(before, w.text) ELSE before

C9_BufferIsCapturedWrites == lines = Captured(written)

\* a blank write and a write while disabled were both dropped, a later
\* write after re-enabling was kept
C9_Witness ==
    /\ Len(written) = 3
    /\ written[1].enabled /\ NonBlank(written[1].text)
    /\ ~written[2].enabled /\ NonBlank(written[2].text)
    /\ written[3].enabled /\ ~NonBlank(written[3].text) /\ written[3].text # <<>>
    /\ lines = <<written[1].text>>

(***************************************************************************)
(* Exceptions.  An exception is [kind, msg]; kind is the class name and    *)
(* msg the text of str(e), a tuple of parts.                               *)
(***************************************************************************)
\* The classes that derive from BaseException but not from Exception.
NotExceptionKinds == {"SystemExit", "KeyboardInterrupt", "GeneratorExit"}

\* isinstance(e, Exception): what an "except Exception" clause catches
isException(e) == e.kind \notin NotExceptionKinds

(***************************************************************************)
(* The import allow-list.                                                  *)
(***************************************************************************)
\* math, pandas, numpy, scipy: imported by the runner module itself
DefaultModules == {"math", "pandas", "numpy", "scipy"}

\* The modules importlib can find on this host.
Installed == DefaultModules \cup {"os", "json"}

\* The names a script may ask for.
ModuleNames == {"math", "scipy", "os", "json", "nosuch", "sys"}

\* The module object of a name; serial tells one load from another.
Module(name, serial) == <<"module", name, serial>>

\* Items of configuration["allowedImportModules"].split(",")
ConfigItems == {"os", " json", "nosuch ", "math"}

\* item.strip()
strip_item(item) ==
    CASE item = " json" -> "json"
      [] item = "nosuch " -> "nosuch"
      [] OTHER -> item

Configurations ==
    { <<>>, <<"os">>, <<"os", " json">>, <<" json", "nosuch ">>, <<"math", "os">> }

RECURSIVE add_allowed(_, _)
add_allowed(mods, items) ==
    IF items = <<>> THEN mods
    ELSE LET item == strip_item(Head(items)) IN
         add_allowed(IF item \notin DOMAIN mods THEN mods @@ (item :> None) ELSE mods,
                     Tail(items))

\* Python.__init__: the dict _allowed_modules after construction
Python_init(configuration) ==
    add_allowed([name \in DefaultModules |-> <<Module(name, 0)>>], configuration)

\* importlib.import_module(name), creating module object number serial
import_module(name, serial) ==
    IF name \in Installed
    THEN [exc |-> None, ret |-> <<Module(name, serial)>>]
    ELSE [exc |-> <<[kind |-> "ModuleNotFoundError",
                     msg |-> <<"No module named '", name, "'">>]>>,
          ret |-> None]

\* custom_import without the write-back of the loaded module
custom_import_uncached(mods, name, serial) ==
    IF name \in DOMAIN mods
    THEN IF mods[name] = None
         THEN LET m == import_module(name, serial) IN
              [mods |-> mods, exc |-> m.exc, ret |-> m.ret,
               called_loader |-> TRUE, loaded |-> m.exc = None]
         ELSE [mods |-> mods, exc |-> None, ret |-> mods[name],
               called_loader |-> FALSE, loaded |-> FALSE]
    ELSE [mods |-> mods,
          exc |-> <<[kind |-> "Exception",
                     msg |-> <<"'", name,
                               "' is not configured as a supported import module">>]>>,
          ret |-> None, called_loader |-> FALSE, loaded |-> FALSE]

\* custom_import that loads whatever is installed, listed or not
custom_import_open(mods, name, serial) ==
    IF name \in DOMAIN mods /\ mods[name] # None
    THEN [mods |-> mods, exc |-> None, ret |-> mods[name],
          called_loader |-> FALSE, loaded |-> FALSE]
    ELSE LET m == import_module(name, serial) IN
         [mods |-> IF m.exc = None THEN (name :> m.ret) @@ mods ELSE mods,
          exc |-> m.exc, ret |-> m.ret,
          called_loader |-> TRUE, loaded |-> m.exc = None]

\* Python.custom_import(name): the dict afterwards, what is raised or
\* returned, and whether importlib was called and loaded a module.
custom_import(mods, name, serial) ==
    IF name \in DOMAIN mods
    THEN IF mods[name] = None
         THEN LET m == import_module(name, serial) IN
              [mods |-> IF m.exc = None THEN [mods EXCEPT ![name] = m.ret] ELSE mods,
               exc |-> m.exc, ret |-> m.ret,
               called_loader |-> TRUE, loaded |-> m.exc = None]
         ELSE [mods |-> mods, exc |-> None, ret |-> mods[name],
               called_loader |-> FALSE, loaded |-> FALSE]
    ELSE [mods |-> mods,
          exc |-> <<[kind |-> "Exception",
                     msg |-> <<"'", name,
                               "' is not configured as a supported import module">>]>>,
          ret |-> None, called_loader |-> FALSE, loaded |-> FALSE]

CustomImport(name) ==
    /\ ncalls < MaxImports
    /\ LET r == custom_import(allowed_modules, name, next_handle) IN
         /\ allowed_modules' = r.mods
         /\ next_handle' = IF r.loaded THEN next_handle + 1 ELSE next_handle
         /\ loads' = IF r.called_loader
                     THEN Append(loads, [name |-> name, loaded |-> r.loaded, ret |-> r.ret])
                     ELSE loads
         /\ last_import' = <<[name |-> name, exc |-> r.exc, ret |-> r.ret,
                              called_loader |-> r.called_loader]>>
    /\ ncalls' = ncalls + 1

InitImport ==
    /\ config \in Configurations
    /\ allowed_modules = Python_init(config)
    /\ next_handle = 1
    /\ loads = <<>>
    /\ last_import = None
    /\ ncalls = 0
    /\ enabled = CustomPrint_init.enabled
    /\ lines = CustomPrint_init.lines
    /\ written = <<>>
    /\ last_run = None
    /\ phase = "idle"
    /\ wire = None
    /\ df = None
    /\ out = None

NextImport ==
    \E name \in ModuleNames :
        CustomImport(name) /\ UNCHANGED <<sinkVars, config, last_run, serVars>>

SpecImport == InitImport /\ [][NextImport]_vars

\* The names the configuration lists, read off the configuration itself.
Listed == { strip_item(config[i]) : i \in 1..Len(config) }

LoadsOf(name) == SelectSeq(loads, LAMBDA l : l.name = name /\ l.loaded)

(***************************************************************************)
(* C2: a name that is neither a default module nor listed in the           *)
(* configuration is refused with an error that carries the name, and the   *)
(* loader is never called for it; a listed name is really loaded at most   *)
(* once, and every resolve that succeeds returns the module object the     *)
(* instance holds for that name, which never changes once it is set.       *)
(***************************************************************************)
C2_Denied ==
    /\ \A i \in 1..Len(loads) : loads[i].name \in DefaultModules \cup Listed
    /\ last_import # None /\ last_import[1].name \notin DefaultModules \cup Listed
         => /\ last_import[1].exc # None
            /\ last_import[1].ret = None
            /\ ~last_import[1].called_loader
            /\ \E i \in 1..Len(last_import[1].exc[1].msg) :
                   last_import[1].exc[1].msg[i] = last_import[1].name

C2_LoadedOnce ==
    /\ \A name \in ModuleNames : Len(LoadsOf(name)) <= 1
    /\ \A name \in DefaultModules : Len(LoadsOf(name)) = 0
    /\ last_import # None /\ last_import[1].exc = None
         => /\ last_import[1].ret # None
            /\ last_import[1].name \in DefaultModules
                 => last_import[1].ret = <<Module(last_import[1].name, 0)>>
            /\ last_import[1].name \notin DefaultModules
                 => /\ LoadsOf(last_import[1].name) # <<>>
                    /\ last_import[1].ret = LoadsOf(last_import[1].name)[1].ret

\* C2: an unlisted name is refused without a load, a listed name is loaded at
\* most once and every resolve returns the module the instance holds
C2_ImportAllowList == C2_Denied /\ C2_LoadedOnce

\* a listed module was loaded by one resolve and returned from the cache by
\* the next, and an unlisted name was refused
C2_Witness ==
    /\ last_import # None
    /\ last_import[1].name = "os"
    /\ last_import[1].exc = None
    /\ ~last_import[1].called_loader
    /\ Len(LoadsOf("os")) = 1
    /\ ncalls = 3

(***************************************************************************)
(* Values.  A scalar is a tagged tuple.                                    *)
(*   Python objects: <<"None">>, <<"bool", b>>, <<"int", n>>,              *)
(*     <<"float", h>> (the number h/2), <<"str", s>>, <<"date", day>>,     *)
(*     <<"datetime", day, second>>.                                        *)
(*   numpy and pandas scalars: <<"np.bool_", b>>, <<"np.int64", n>>,       *)
(*     <<"np.float64", h>>, <<"Timestamp", day, second>>,                  *)
(*     <<"Timedelta", seconds>>, <<"Period", day>>, <<"Interval", l, r>>.  *)
(*   Missing markers: <<"None">>, <<"nan">>, <<"NaT">>, <<"NA">>.          *)
(* Day 1 is 2020-01-01.                                                    *)
(* In a wire table a date or date-time is the text json_loads left, which  *)
(* pd.to_datetime parses; <<"date", d>> and <<"datetime", d, s>> stand for *)
(* those texts as well.                                                    *)
(***************************************************************************)
NoneV == <<"None">>
NaN == <<"nan">>
NaT == <<"NaT">>
NA == <<"NA">>

\* pd.isna(v) / not pd.notna(v)
isna(v) == v[1] \in {"None", "nan", "NaT", "NA"}

\* The column types of redash.query_runner (TYPE_DATETIME, ...)
TYPE_DATETIME == "datetime"
TYPE_DATE == "date"
TYPE_BOOLEAN == "boolean"
TYPE_INTEGER == "integer"
TYPE_FLOAT == "float"
TYPE_STRING == "string"

\* str(x)
str(v) ==
    CASE v[1] = "str" -> v
      [] v = <<"int", 1>> -> <<"str", "1">>
      [] v = <<"bool", TRUE>> -> <<"str", "True">>
      [] v = <<"np.int64", 1>> -> <<"str", "1">>
      [] v = <<"np.int64", 42>> -> <<"str", "42">>
      [] v = <<"date", 1>> -> <<"str", "2020-01-01">>
      [] v = <<"datetime", 1, 30>> -> <<"str", "2020-01-01 00:00:30">>
      [] v = <<"Interval", 0, 1>> -> <<"str", "(0, 1]">>

\* A dict as a sequence of <<key, value>> pairs, in insertion order.
keys(d) == [i \in 1..Len(d) |-> d[i][1]]

has_key(d, k) == \E i \in 1..Len(d) : d[i][1] = k

get(d, k) == d[CHOOSE i \in 1..Len(d) : d[i][1] = k][2]

(***************************************************************************)
(* pandas.  A DataFrame is a sequence of columns [name, dtype, vals].      *)
(***************************************************************************)
\* pd.DataFrame()
EmptyDataFrame == <<>>

nrows(frame) == IF frame = <<>> THEN 0 ELSE Len(frame[1].vals)

all(vals, P(_)) == \A i \in 1..Len(vals) : P(vals[i])

\* the dtype pandas infers for a list of Python objects, and the array
infer_array(vals) ==
    IF all(vals, LAMBDA v : v = NoneV)
      THEN [dtype |-> "object", vals |-> vals]
    ELSE IF all(vals, LAMBDA v : v[1] = "bool")
      THEN [dtype |-> "bool", vals |-> [i \in 1..Len(vals) |-> <<"np.bool_", vals[i][2]>>]]
    ELSE IF all(vals, LAMBDA v : v[1] = "int")
      THEN [dtype |-> "int64", vals |-> [i \in 1..Len(vals) |-> <<"np.int64", vals[i][2]>>]]
    ELSE IF all(vals, LAMBDA v : v[1] \in {"int", "float", "None"})
      THEN [dtype |-> "float64",
            vals |-> [i \in 1..Len(vals) |->
                        CASE vals[i][1] = "None" -> NaN
                          [] vals[i][1] = "int" -> <<"np.float64", 2 * vals[i][2]>>
                          [] vals[i][1] = "float" -> <<"np.float64", vals[i][2]>>]]
    ELSE [dtype |-> "object", vals |-> vals]

\* pd.DataFrame.from_records(rows): the columns are the keys of the records,
\* in the order the records give them; no record, no column.
from_records(rows) ==
    IF rows = <<>> THEN EmptyDataFrame
    ELSE LET names == keys(rows[1]) IN
         [j \in 1..Len(names) |->
            LET a == infer_array([i \in 1..Len(rows) |-> get(rows[i], names[j])])
            IN [name |-> names[j], dtype |-> a.dtype, vals |-> a.vals]]

TypeError(msg) == <<[kind |-> "TypeError", msg |-> <<msg>>]>>

\* pd.to_datetime(column)
to_datetime(col) ==
    [exc |-> None,
     col |-> [col EXCEPT
        !.dtype = "datetime64[ns]",
        !.vals = [i \in 1..Len(col.vals) |->
                    LET v == col.vals[i] IN
                    CASE isna(v) -> NaT
                      [] v = <<"str", "">> -> NaT
                      [] v[1] = "date" -> <<"Timestamp", v[2], 0>>
                      [] v[1] = "datetime" -> <<"Timestamp", v[2], v[3]>>
                      [] v[1] = "Timestamp" -> v]]]

\* column.astype("boolean")
astype_boolean(col) ==
    IF all(col.vals, LAMBDA v : isna(v) \/ v[1] \in {"bool", "np.bool_"})
    THEN [exc |-> None,
          col |-> [col EXCEPT
             !.dtype = "boolean",
             !.vals = [i \in 1..Len(col.vals) |->
                         IF isna(col.vals[i]) THEN NA
                         ELSE <<"np.bool_", col.vals[i][2]>>]]]
    ELSE [exc |-> TypeError("Need to pass bool-like values"), col |-> col]

\* column.astype("Int64")
astype_Int64(col) ==
    IF /\ col.dtype # "interval[int64]"
       /\ all(col.vals, LAMBDA v : \/ isna(v)
                                   \/ v[1] \in {"int", "np.int64"}
                                   \/ (v[1] \in {"float", "np.float64"} /\ v[2] % 2 = 0))
    THEN [exc |-> None,
          col |-> [col EXCEPT
             !.dtype = "Int64",
             !.vals = [i \in 1..Len(col.vals) |->
                         LET v == col.vals[i] IN
                         CASE isna(v) -> NA
                           [] v[1] \in {"int", "np.int64"} -> <<"np.int64", v[2]>>
                           [] v[1] \in {"float", "np.float64"} -> <<"np.int64", v[2] \div 2>>]]]
    ELSE [exc |-> TypeError("cannot cast to dtype Int64"), col |-> col]

\* column.astype("string")
astype_string(col) ==
    [exc |-> None,
     col |-> [col EXCEPT
        !.dtype = "string",
        !.vals = [i \in 1..Len(col.vals) |->
                    IF isna(col.vals[i]) THEN NA ELSE str(col.vals[i])]]]

\* column.dt.total_seconds()
total_seconds(col) ==
    [col EXCEPT
        !.dtype = "float64",
        !.vals = [i \in 1..Len(col.vals) |->
                    IF isna(col.vals[i]) THEN NaN
                    ELSE <<"np.float64", 2 * col.vals[i][2]>>]]

\* column.dt.to_timestamp()
to_timestamp(col) ==
    [col EXCEPT
        !.dtype = "datetime64[ns]",
        !.vals = [i \in 1..Len(col.vals) |->
                    IF isna(col.vals[i]) THEN NaT
                    ELSE <<"Timestamp", col.vals[i][2], 0>>]]

\* str(dtype).lower()
lower(t) ==
    CASE t = "Int64" -> "int64"
      [] t = "period[D]" -> "period[d]"
      [] OTHER -> t

\* The prefixes, among those result_from_df asks about, of a lowered dtype name.
PrefixesOf(t) ==
    CASE t = "int64" -> {"int"}
      [] t = "interval[int64]" -> {"int"}
      [] t = "uint64" -> {"uint"}
      [] t = "float64" -> {"float"}
      [] t = "bool" -> {"bool"}
      [] t = "boolean" -> {"bool"}
      [] t = "datetime64[ns]" -> {"datetime"}
      [] t = "timedelta64[ns]" -> {"timedelta"}
      [] t = "period[d]" -> {"period"}
      [] OTHER -> {}

\* t.startswith(prefix)
startswith(t, prefix) == prefix \in PrefixesOf(t)

\* isinstance(x, bool)
isinstance_bool(v) == v[1] = "bool"

\* isinstance(x, datetime.date): datetime.datetime and pd.Timestamp derive
\* from datetime.date
isinstance_date(v) == v[1] \in {"date", "datetime", "Timestamp"}

\* float.is_integer()
is_integer(v) == v[1] \in {"float", "np.float64"} /\ v[2] % 2 = 0

(***************************************************************************)
(* Python.df_from_result                                                   *)
(***************************************************************************)
\* {c["name"]: c["type"] for c in result["columns"]}: the last descriptor of
\* a name decides
column_type_of(columns, name) ==
    columns[CHOOSE i \in 1..Len(columns) :
               /\ columns[i].name = name
               /\ \A k \in (i + 1)..Len(columns) : columns[k].name # name].type

\* one pass of the loop "for c in df.columns"
coerce_declared(col, t) ==
    IF t = TYPE_DATETIME \/ t = TYPE_DATE THEN to_datetime(col)
    ELSE IF t = TYPE_BOOLEAN THEN astype_boolean(col)
    ELSE IF t = TYPE_INTEGER THEN astype_Int64(col)
    ELSE IF t = TYPE_STRING THEN astype_string(col)
    ELSE [exc |-> None, col |-> col]

\* the first exception a sequence of steps raised, None when none did
first_exc(steps) ==
    IF \E i \in 1..Len(steps) : steps[i].exc # None
    THEN steps[CHOOSE i \in 1..Len(steps) :
                  /\ steps[i].exc # None
                  /\ \A k \in 1..(i - 1) : steps[k].exc = None].exc
    ELSE None

df_from_result(result) ==
    LET frame == from_records(result.rows)
        steps == [j \in 1..Len(frame) |->
                    IF \E i \in 1..Len(result.columns) :
                          result.columns[i].name = frame[j].name
                    THEN coerce_declared(frame[j],
                                         column_type_of(result.columns, frame[j].name))
                    ELSE [exc |-> <<[kind |-> "KeyError", msg |-> <<frame[j].name>>]>>,
                          col |-> frame[j]]]
    IN [exc |-> first_exc(steps),
        ret |-> IF first_exc(steps) = None
                THEN <<[j \in 1..Len(frame) |-> steps[j].col]>>
                ELSE None]

(***************************************************************************)
(* Python.result_from_df                                                   *)
(***************************************************************************)
\* the type chain with the whole-number test of float columns left out
infer_column_float_first(col) ==
    LET t == lower(col.dtype) IN
    IF t = "object" /\ all(col.vals, LAMBDA x : isinstance_bool(x) \/ isna(x))
      THEN LET c == astype_boolean(col) IN
           [exc |-> c.exc, col |-> c.col, type |-> TYPE_BOOLEAN]
    ELSE IF t = "object" /\ all(col.vals, LAMBDA x : isinstance_date(x) \/ isna(x))
      THEN [exc |-> None, col |-> col, type |-> TYPE_DATE]
    ELSE IF startswith(t, "int")
      THEN LET c == astype_Int64(col) IN
           [exc |-> c.exc, col |-> c.col, type |-> TYPE_INTEGER]
    ELSE IF startswith(t, "uint")
      THEN [exc |-> None, col |-> col, type |-> TYPE_INTEGER]
    ELSE IF startswith(t, "float")
      THEN [exc |-> None, col |-> col, type |-> TYPE_FLOAT]
    ELSE IF startswith(t, "bool")
      THEN [exc |-> None, col |-> col, type |-> TYPE_BOOLEAN]
    ELSE IF startswith(t, "datetime")
      THEN [exc |-> None, col |-> col, type |-> TYPE_DATETIME]
    ELSE IF startswith(t, "timedelta")
      THEN [exc |-> None, col |-> total_seconds(col), type |-> TYPE_FLOAT]
    ELSE IF startswith(t, "period")
      THEN [exc |-> None, col |-> to_timestamp(col), type |-> TYPE_DATETIME]
    ELSE LET c == astype_string(col) IN
         [exc |-> c.exc, col |-> c.col, type |-> TYPE_STRING]

\* the type chain with the date test ahead of the boolean test
infer_column_date_first(col) ==
    LET t == lower(col.dtype) IN
    IF t = "object" /\ all(col.vals, LAMBDA x : isinstance_date(x) \/ isna(x))
      THEN [exc |-> None, col |-> col, type |-> TYPE_DATE]
    ELSE IF t = "object" /\ all(col.vals, LAMBDA x : isinstance_bool(x) \/ isna(x))
      THEN LET c == astype_boolean(col) IN
           [exc |-> c.exc, col |-> c.col, type |-> TYPE_BOOLEAN]
    ELSE IF startswith(t, "int")
      THEN LET c == astype_Int64(col) IN
           [exc |-> c.exc, col |-> c.col, type |-> TYPE_INTEGER]
    ELSE IF startswith(t, "uint")
      THEN [exc |-> None, col |-> col, type |-> TYPE_INTEGER]
    ELSE IF startswith(t, "float") /\ all(col.vals, LAMBDA x : is_integer(x) \/ isna(x))
      THEN LET c == astype_Int64(col) IN
           [exc |-> c.exc, col |-> c.col, type |-> TYPE_INTEGER]
    ELSE IF startswith(t, "float")
      THEN [exc |-> None, col |-> col, type |-> TYPE_FLOAT]
    ELSE IF startswith(t, "bool")
      THEN [exc |-> None, col |-> col, type |-> TYPE_BOOLEAN]
    ELSE IF startswith(t, "datetime")
      THEN [exc |-> None, col |-> col, type |-> TYPE_DATETIME]
    ELSE IF startswith(t, "timedelta")
      THEN [exc |-> None, col |-> total_seconds(col), type |-> TYPE_FLOAT]
    ELSE IF startswith(t, "period")
      THEN [exc |-> None, col |-> to_timestamp(col), type |-> TYPE_DATETIME]
    ELSE LET c == astype_string(col) IN
         [exc |-> c.exc, col |-> c.col, type |-> TYPE_STRING]

\* one pass of the loop "for c, t in df.dtypes.iteritems()": the column as
\* it is left in df, and its column_type
infer_column(col) ==
    LET t == lower(col.dtype) IN
    IF t = "object" /\ all(col.vals, LAMBDA x : isinstance_bool(x) \/ isna(x))
      THEN LET c == astype_boolean(col) IN
           [exc |-> c.exc, col |-> c.col, type |-> TYPE_BOOLEAN]
    ELSE IF t = "object" /\ all(col.vals, LAMBDA x : isinstance_date(x) \/ isna(x))
      THEN [exc |-> None, col |-> col, type |-> TYPE_DATE]
    ELSE IF startswith(t, "int")
      THEN LET c == astype_Int64(col) IN
           [exc |-> c.exc, col |-> c.col, type |-> TYPE_INTEGER]
    ELSE IF startswith(t, "uint")
      THEN [exc |-> None, col |-> col, type |-> TYPE_INTEGER]
    ELSE IF startswith(t, "float") /\ all(col.vals, LAMBDA x : is_integer(x) \/ isna(x))
      THEN LET c == astype_Int64(col) IN
           [exc |-> c.exc, col |-> c.col, type |-> TYPE_INTEGER]
    ELSE IF startswith(t, "float")
      THEN [exc |-> None, col |-> col, type |-> TYPE_FLOAT]
    ELSE IF startswith(t, "bool")
      THEN [exc |-> None, col |-> col, type |-> TYPE_BOOLEAN]
    ELSE IF startswith(t, "datetime")
      THEN [exc |-> None, col |-> col, type |-> TYPE_DATETIME]
    ELSE IF startswith(t, "timedelta")
      THEN [exc |-> None, col |-> total_seconds(col), type |-> TYPE_FLOAT]
    ELSE IF startswith(t, "period")
      THEN [exc |-> None, col |-> to_timestamp(col), type |-> TYPE_DATETIME]
    ELSE LET c == astype_string(col) IN
         [exc |-> c.exc, col |-> c.col, type |-> TYPE_STRING]

\* convert_value without the test for missing values
convert_value_keep_missing(v) ==
    IF v[1] = "np.int64" THEN <<"int", v[2]>>
    ELSE IF v[1] = "np.float64" THEN <<"float", v[2]>>
    ELSE IF v[1] = "np.bool_" THEN <<"bool", v[2]>>
    ELSE IF v[1] = "Timestamp" THEN <<"datetime", v[2], v[3]>>
    ELSE IF v[1] = "Period" THEN <<"datetime", v[2], 0>>
    ELSE IF v[1] = "Interval" THEN str(v)
    ELSE v

convert_value(v) ==
    IF isna(v) THEN NoneV
    ELSE IF v[1] = "np.int64" THEN <<"int", v[2]>>
    ELSE IF v[1] = "np.float64" THEN <<"float", v[2]>>
    ELSE IF v[1] = "np.bool_" THEN <<"bool", v[2]>>
    ELSE IF v[1] = "Timestamp" THEN <<"datetime", v[2], v[3]>>
    ELSE IF v[1] = "Period" THEN <<"datetime", v[2], 0>>
    ELSE IF v[1] = "Interval" THEN str(v)
    ELSE v

\* df.to_dict(orient="records") with convert_value applied to every value
to_records(frame) ==
    [i \in 1..nrows(frame) |->
        [j \in 1..Len(frame) |-> <<frame[j].name, convert_value(frame[j].vals[i])>>]]

result_from_df(frame) ==
    LET steps == [j \in 1..Len(frame) |-> infer_column(frame[j])] IN
    IF first_exc(steps) # None
    THEN [exc |-> first_exc(steps), ret |-> None]
    ELSE [exc |-> None,
          ret |-> <<[columns |-> [j \in 1..Len(frame) |->
                                    [name |-> frame[j].name,
                                     friendly_name |-> frame[j].name,
                                     type |-> steps[j].type]],
                     rows |-> to_records([j \in 1..Len(frame) |-> steps[j].col])]>>]

(***************************************************************************)
(* The serializer's inputs.                                                *)
(***************************************************************************)
MaxWireRows == 2
MaxRows == 3

DeclaredTypes ==
    {TYPE_DATETIME, TYPE_DATE, TYPE_BOOLEAN, TYPE_INTEGER, TYPE_FLOAT, TYPE_STRING,
     "unknown"}

\* The cells a wire column of a declared type holds: null and values of the
\* type; a date-time column may also hold the empty text, which a source
\* with no value for the cell sends and pd.to_datetime coerces.
WireValues(t) ==
    CASE t = TYPE_DATETIME -> {NoneV, <<"datetime", 1, 30>>, <<"str", "">>}
      [] t = TYPE_DATE -> {NoneV, <<"date", 1>>}
      [] t = TYPE_BOOLEAN -> {NoneV, <<"bool", TRUE>>}
      [] t = TYPE_INTEGER -> {NoneV, <<"int", 1>>}
      [] t = TYPE_FLOAT -> {NoneV, <<"float", 2>>, <<"float", 3>>}
      [] t = TYPE_STRING -> {NoneV, <<"str", "a">>}
      [] t = "unknown" -> {NoneV, <<"int", 1>>, <<"str", "a">>}

\* The column names of a wire table, in descriptor order.
WireNames == <<"a", "b">>

\* The orders in which a record of n keys lists them.
KeyOrders(n) == { p \in [1..n -> 1..n] : \A i, k \in 1..n : p[i] = p[k] => i = k }

WireTable(types, cells, order) ==
    [columns |-> [j \in 1..Len(types) |-> [name |-> WireNames[j], type |-> types[j]]],
     rows |-> [i \in 1..Len(cells) |->
                 [k \in 1..Len(types) |-> <<WireNames[order[k]], cells[i][order[k]]>>]]]

\* The rows whose cell under each column is a value of the column's type.
WireRows(types) ==
    { c \in [1..Len(types) -> UNION { WireValues(t) : t \in DeclaredTypes }] :
        \A j \in 1..Len(types) : c[j] \in WireValues(types[j]) }

\* The tables of n columns and r rows.
WireTablesOf(n, r) ==
    UNION { { WireTable(types, cells, order) :
                cells \in [1..r -> WireRows(types)], order \in KeyOrders(n) } :
            types \in [1..n -> DeclaredTypes] }

\* The values a script can leave in a column of each dtype.
StorageValues(dtype) ==
    CASE dtype = "object" ->
           {NoneV, <<"bool", TRUE>>, <<"date", 1>>, <<"datetime", 1, 30>>, <<"str", "a">>}
      [] dtype = "int64" -> {<<"np.int64", 1>>}
      [] dtype = "Int64" -> {<<"np.int64", 1>>, NA}
      [] dtype = "uint64" -> {<<"np.int64", 1>>}
      [] dtype = "float64" -> {<<"np.float64", 2>>, <<"np.float64", 4>>,
                               <<"np.float64", 5>>, NaN}
      [] dtype = "bool" -> {<<"np.bool_", TRUE>>, <<"np.bool_", FALSE>>}
      [] dtype = "boolean" -> {<<"np.bool_", TRUE>>, NA}
      [] dtype = "datetime64[ns]" -> {<<"Timestamp", 1, 0>>, <<"Timestamp", 1, 30>>, NaT}
      [] dtype = "timedelta64[ns]" -> {<<"Timedelta", 90>>, NaT}
      [] dtype = "period[D]" -> {<<"Period", 1>>, NaT}
      [] dtype = "string" -> {<<"str", "a">>, NA}
      [] dtype = "category" -> {<<"str", "a">>, NaN}
      [] dtype = "interval[int64]" -> {<<"Interval", 0, 1>>, NaN}

Dtypes ==
    {"object", "int64", "Int64", "uint64", "float64", "bool", "boolean",
     "datetime64[ns]", "timedelta64[ns]", "period[D]", "string", "category",
     "interval[int64]"}

\* The one-column DataFrames of r rows a script builds.
ScriptFramesOf(dtype, r) ==
    { <<[name |-> "c", dtype |-> dtype, vals |-> vals]>> :
        vals \in [1..r -> StorageValues(dtype)] }

(***************************************************************************)
(* The serializer's two operations, applied to a wire table the host hands *)
(* over (execute_query, get_query_result) or to a DataFrame of the script. *)
(***************************************************************************)
FromWire ==
    /\ phase = "wire"
    /\ LET r == df_from_result(wire[1]) IN
         /\ df' = r.ret
         /\ out' = IF r.exc = None THEN None ELSE <<[exc |-> r.exc, ret |-> None]>>
         /\ phase' = IF r.exc = None THEN "df" ELSE "out"
    /\ UNCHANGED wire

ToWire ==
    /\ phase = "df"
    /\ out' = <<result_from_df(df[1])>>
    /\ phase' = "out"
    /\ UNCHANGED <<wire, df>>

InitSer ==
    /\ \/ /\ phase = "wire"
          /\ \E n \in 0..Len(WireNames), r \in 0..MaxWireRows :
                /\ n = 0 => r = 0
                /\ wire \in { <<table>> : table \in WireTablesOf(n, r) }
          /\ df = None
       \/ /\ phase = "df"
          /\ wire = None
          /\ \E dtype \in Dtypes, r \in 0..MaxRows :
                df \in { <<frame>> : frame \in ScriptFramesOf(dtype, r) }
    /\ out = None
    /\ enabled = CustomPrint_init.enabled
    /\ lines = CustomPrint_init.lines
    /\ written = <<>>
    /\ allowed_modules = <<>>
    /\ next_handle = 1
    /\ loads = <<>>
    /\ last_import = None
    /\ ncalls = 0
    /\ config = <<>>
    /\ last_run = None

NextSer ==
    \/ FromWire /\ UNCHANGED <<sinkVars, importVars, ncalls, config, last_run>>
    \/ ToWire /\ UNCHANGED <<sinkVars, importVars, ncalls, config, last_run>>

SpecSer == InitSer /\ [][NextSer]_vars

(***************************************************************************)
(* What the serializer claims speak of.                                     *)
(***************************************************************************)
\* result_from_df was applied to a DataFrame of the script
ScriptDone == phase = "out" /\ wire = None

\* the column of that DataFrame, and what came out
InCol == df[1][1]
Out == out[1]
OutType == Out.ret[1].columns[1].type
OutCells == [i \in 1..Len(Out.ret[1].rows) |-> Out.ret[1].rows[i][1][2]]

NonNull(vals) == { vals[i] : i \in { k \in 1..Len(vals) : ~isna(vals[k]) } }

AllNull(vals) == NonNull(vals) = {}

IsBoolean(v) == v[1] \in {"bool", "np.bool_"}

IsWhole(v) == v[1] \in {"float", "np.float64"} /\ v[2] % 2 = 0

\* the wire value of a whole float, of any other number, of a text
AsInteger(v) == IF isna(v) THEN NoneV ELSE <<"int", v[2] \div 2>>

IntegerStorage == {"int64", "Int64"}
FloatStorage == {"float64"}

\* The eleven rules as the claim words them: rules 1 and 2 look at the
\* values alone, whatever the storage.
ClaimedType(col) ==
    IF \A v \in NonNull(col.vals) : IsBoolean(v) THEN TYPE_BOOLEAN
    ELSE IF \A v \in NonNull(col.vals) : v[1] = "date" THEN TYPE_DATE
    ELSE IF col.dtype \in IntegerStorage THEN TYPE_INTEGER
    ELSE IF col.dtype = "uint64" THEN TYPE_INTEGER
    ELSE IF col.dtype \in FloatStorage /\ \A v \in NonNull(col.vals) : IsWhole(v)
      THEN TYPE_INTEGER
    ELSE IF col.dtype \in FloatStorage THEN TYPE_FLOAT
    ELSE IF col.dtype \in {"bool", "boolean"} THEN TYPE_BOOLEAN
    ELSE IF col.dtype = "datetime64[ns]" THEN TYPE_DATETIME
    ELSE IF col.dtype = "timedelta64[ns]" THEN TYPE_FLOAT
    ELSE IF col.dtype = "period[D]" THEN TYPE_DATETIME
    ELSE TYPE_STRING

StorageType(col) ==
    CASE col.dtype = "object" ->
           IF \A v \in NonNull(col.vals) : v[1] = "bool" THEN TYPE_BOOLEAN
           ELSE IF \A v \in NonNull(col.vals) : v[1] \in {"date", "datetime", "Timestamp"}
             THEN TYPE_DATE
           ELSE TYPE_STRING
      [] col.dtype \in IntegerStorage \cup {"uint64"} -> TYPE_INTEGER
      [] col.dtype \in FloatStorage ->
           IF \A v \in NonNull(col.vals) : IsWhole(v) THEN TYPE_INTEGER ELSE TYPE_FLOAT
      [] col.dtype \in {"bool", "boolean"} -> TYPE_BOOLEAN
      [] col.dtype \in {"datetime64[ns]", "period[D]"} -> TYPE_DATETIME
      [] col.dtype = "timedelta64[ns]" -> TYPE_FLOAT
      [] col.dtype \in {"string", "category"} -> TYPE_STRING

AllNullType(dtype) ==
    CASE dtype = "object" -> TYPE_BOOLEAN
      [] dtype \in {"float64", "Int64"} -> TYPE_INTEGER
      [] dtype = "boolean" -> TYPE_BOOLEAN
      [] dtype \in {"datetime64[ns]", "period[D]"} -> TYPE_DATETIME
      [] dtype = "timedelta64[ns]" -> TYPE_FLOAT
      [] dtype \in {"string", "category"} -> TYPE_STRING

RoundTripDone == phase = "out" /\ wire # None

T == wire[1]

\* every cell of T is null or a value of its column's declared type
Consistent(table) ==
    \A i \in 1..Len(table.rows) : \A k \in 1..Len(table.rows[i]) :
        table.rows[i][k][2] # <<"str", "">>

\* the same number, text, truth value, date or date-time
SameValue(a, b) ==
    \/ a = b
    \/ a[1] = "int" /\ b[1] = "float" /\ 2 * a[2] = b[2]
    \/ a[1] = "float" /\ b[1] = "int" /\ a[2] = 2 * b[2]

\* the inferred type is the declared one or a more specific one
SameOrMoreSpecific(inferred, declared) ==
    \/ inferred = declared
    \/ declared = "unknown"
    \/ declared = TYPE_FLOAT /\ inferred = TYPE_INTEGER

(***************************************************************************)
(* C7 as stated: for a wire table T whose values are consistent with the   *)
(* declared types, result_from_df(df_from_result(T)) has T's columns in    *)
(* T's order, T's rows in T's order with the same cell values, and for     *)
(* each column the declared type or a more specific one.                   *)
(***************************************************************************)
C7_RoundTrip ==
    RoundTripDone /\ Consistent(T) =>
      /\ Out.exc = None
      /\ Len(Out.ret[1].columns) = Len(T.columns)
      /\ \A j \in 1..Len(T.columns) :
            /\ Out.ret[1].columns[j].name = T.columns[j].name
            /\ SameOrMoreSpecific(Out.ret[1].columns[j].type, T.columns[j].type)
      /\ Len(Out.ret[1].rows) = Len(T.rows)
      /\ \A i \in 1..Len(T.rows) : \A j \in 1..Len(T.columns) :
            /\ has_key(Out.ret[1].rows[i], T.columns[j].name)
            /\ SameValue(get(Out.ret[1].rows[i], T.columns[j].name),
                         get(T.rows[i], T.columns[j].name))

(***************************************************************************)
(* C8 as stated: across the round trip a null cell stays null, no non-null *)
(* cell becomes null, and NaN, NaT and NA never appear in an output row.   *)
(***************************************************************************)
NullsStayNull ==
    /\ Len(Out.ret[1].rows) = Len(T.rows)
    /\ \A i \in 1..Len(T.rows) : \A j \in 1..Len(T.columns) :
          get(T.rows[i], T.columns[j].name) = NoneV
            => /\ has_key(Out.ret[1].rows[i], T.columns[j].name)
               /\ get(Out.ret[1].rows[i], T.columns[j].name) = NoneV

NoMissingMarker ==
    \A i \in 1..Len(Out.ret[1].rows) : \A k \in 1..Len(Out.ret[1].rows[i]) :
        Out.ret[1].rows[i][k][2][1] \notin {"nan", "NaT", "NA"}

\* C8 as stated: nulls stay null, no value becomes null, no missing marker
C8_AsStated ==
    RoundTripDone /\ Out.exc = None =>
      /\ NullsStayNull
      /\ NoMissingMarker
      /\ \A i \in 1..Len(T.rows) : \A j \in 1..Len(T.columns) :
            get(T.rows[i], T.columns[j].name) # NoneV
              => get(Out.ret[1].rows[i], T.columns[j].name) # NoneV

(***************************************************************************)
(* C8 by the code: across the round trip a null cell stays null in its row *)
(* and column, NaN, NaT and NA never appear in an output row, and a value  *)
(* that is not null                                                        *)
(* becomes null only if it is a text of a date or date-time column         *)
(* that pd.to_datetime reads as missing (the empty text).                  *)
(***************************************************************************)
C8_NullPreserved ==
    RoundTripDone /\ Out.exc = None =>
      /\ NullsStayNull
      /\ NoMissingMarker
      /\ \A i \in 1..Len(T.rows) : \A j \in 1..Len(T.columns) :
            /\ get(T.rows[i], T.columns[j].name) # NoneV
            /\ get(Out.ret[1].rows[i], T.columns[j].name) = NoneV
            => /\ T.columns[j].type \in {TYPE_DATETIME, TYPE_DATE}
               /\ get(T.rows[i], T.columns[j].name) = <<"str", "">>

\* an integer column and a date-time column, each with a null under a value,
\* went through both conversions
C8_Witness ==
    /\ RoundTripDone
    /\ Out.exc = None
    /\ T.columns = <<[name |-> "a", type |-> TYPE_INTEGER],
                     [name |-> "b", type |-> TYPE_DATETIME]>>
    /\ Len(T.rows) = 2
    /\ get(T.rows[1], "a") = <<"int", 1>> /\ get(T.rows[2], "a") = NoneV
    /\ get(T.rows[1], "b") = <<"datetime", 1, 30>> /\ get(T.rows[2], "b") = NoneV
    /\ get(Out.ret[1].rows[1], "a") = <<"int", 1>>
    /\ get(Out.ret[1].rows[2], "a") = NoneV
    /\ get(Out.ret[1].rows[2], "b") = NoneV

(***************************************************************************)
(* Scripts.  A query is a sequence of pieces: a piece is the text of one   *)
(* statement, or the line break NL.                                        *)
(***************************************************************************)
NL == "\n"

Statements ==
    {"print('a')", "import os", "result = 1", "result = pd.DataFrame({'col': [42]})",
     "x = 1/0", "raise SystemExit()", "def f(): return 1/0", "f()", "x = ("}

\* Queries of at most MaxQueryLen pieces, a line break between two statements.
Queries ==
    UNION { { q \in [1..n -> Statements \cup {NL}] :
                \A i \in 1..(n - 1) : q[i] = NL \/ q[i + 1] = NL } : n \in 0..MaxQueryLen }

\* query.split("\n")
RECURSIVE split(_)
split(query) ==
    IF \E i \in 1..Len(query) : query[i] = NL
    THEN LET i == CHOOSE k \in 1..Len(query) :
                     query[k] = NL /\ \A m \in 1..(k - 1) : query[m] # NL
         IN <<SubSeq(query, 1, i - 1)>> \o split(SubSeq(query, i + 1, Len(query)))
    ELSE <<query>>

\* compile_restricted(query, "<string>", "exec"): the statement of each line,
\* or the SyntaxError
compile_restricted(query) ==
    LET ls == split(query) IN
    IF \E i \in 1..Len(ls) : ls[i] = <<"x = (">>
    THEN [exc |-> <<[kind |-> "SyntaxError",
                     msg |-> <<"'(' was never closed">>]>>,
          code |-> <<>>]
    ELSE [exc |-> None, code |-> ls]

\* A frame of a traceback.
Frame(file, lineno) == [file |-> file, lineno |-> lineno]

\* An exception raised in the script; tb is e.__traceback__.tb_next and what
\* follows it, the frame of the script's top level first.
Raised(kind, msg, tb) == <<[kind |-> kind, msg |-> msg, tb |-> tb]>>

\* The execution state: the instance's sink and modules, the names result
\* and f of the namespace, the exception that ended the execution.
\* printed: the texts print was called with.
exec_init(sink, mods, serial) ==
    [sink |-> sink, mods |-> mods, serial |-> serial,
     result |-> <<"DataFrame", EmptyDataFrame>>, f |-> 0,
     exc |-> None, printed |-> <<>>]

\* one statement of the script, on line lineno
exec_statement(x, line, lineno) ==
    IF line = <<>> THEN x
    ELSE LET st == line[1] IN
    CASE st = "print('a')" ->
           [x EXCEPT !.sink = call_print(x.sink, <<<<"a">>>>),
                     !.printed = Append(@, <<"a">>)]
      [] st = "import os" ->
           LET r == custom_import(x.mods, "os", x.serial) IN
           [x EXCEPT !.mods = r.mods,
                     !.serial = IF r.loaded THEN x.serial + 1 ELSE x.serial,
                     !.exc = IF r.exc = None THEN None
                             ELSE Raised(r.exc[1].kind, r.exc[1].msg,
                                         <<Frame("<string>", lineno),
                                           Frame("python.py", 153)>>)]
      [] st = "result = 1" -> [x EXCEPT !.result = <<"int", 1>>]
      [] st = "result = pd.DataFrame({'col': [42]})" ->
           [x EXCEPT !.result =
              <<"DataFrame", <<[name |-> "col", dtype |-> "int64",
                                vals |-> <<<<"np.int64", 42>>>>]>>>>]
      [] st = "x = 1/0" ->
           [x EXCEPT !.exc = Raised("ZeroDivisionError", <<"division by zero">>,
                                    <<Frame("<string>", lineno)>>)]
      [] st = "raise SystemExit()" ->
           [x EXCEPT !.exc = Raised("SystemExit", <<>>, <<Frame("<string>", lineno)>>)]
      [] st = "def f(): return 1/0" -> [x EXCEPT !.f = lineno]
      [] st = "f()" ->
           IF x.f = 0
           THEN [x EXCEPT !.exc = Raised("NameError", <<"name 'f' is not defined">>,
                                         <<Frame("<string>", lineno)>>)]
           ELSE [x EXCEPT !.exc = Raised("ZeroDivisionError", <<"division by zero">>,
                                         <<Frame("<string>", lineno),
                                           Frame("<string>", x.f)>>)]

\* exec(code, restricted_globals): statement after statement, to the end or
\* to the first exception
RECURSIVE exec_from(_, _, _)
exec_from(x, code, lineno) ==
    IF lineno > Len(code) \/ x.exc # None THEN x
    ELSE exec_from(exec_statement(x, code[lineno], lineno), code, lineno + 1)

exec(code, sink, mods, serial) == exec_from(exec_init(sink, mods, serial), code, 1)

\* json_dumps(result)
json_dumps(result) == <<"json", result>>

\* type(e).__name__ + ": " + str(e)
error_of(e) == <<[kind |-> e.kind, msg |-> e.msg]>>

\* What run_query hands back: (json_data, error), or the exception that
\* leaves it.
returns(json_data, error) ==
    [returned |-> TRUE, json_data |-> json_data, error |-> error, leaves |-> None]

propagates(e) ==
    [returned |-> FALSE, json_data |-> None, error |-> None, leaves |-> <<e>>]

\* the handler "except Exception as e" of the outer try
outer_except(e) ==
    IF isException(e) THEN returns(None, error_of(e)) ELSE propagates(e)

\* the else clause without the test of the type of result
finish_untested(x) ==
    LET frame == IF x.result[1] = "DataFrame" THEN x.result[2] ELSE EmptyDataFrame
        r == result_from_df(frame)
    IN IF r.exc # None
       THEN outer_except(r.exc[1]) @@ [serialized |-> TRUE]
       ELSE returns(<<json_dumps(r.ret[1] @@ [log |-> x.sink.lines])>>, None)
              @@ [serialized |-> TRUE]

\* the else clause of the inner try: the script ended without an exception
finish(x) ==
    IF x.result[1] # "DataFrame"
    THEN outer_except([kind |-> "ValueError",
                       msg |-> <<"result is not a pandas DataFrame">>])
           @@ [serialized |-> FALSE]
    ELSE LET r == result_from_df(x.result[2]) IN
         IF r.exc # None
         THEN outer_except(r.exc[1]) @@ [serialized |-> TRUE]
         ELSE returns(<<json_dumps(r.ret[1] @@ [log |-> x.sink.lines])>>, None)
                @@ [serialized |-> TRUE]

\* the handler "except Exception as e" of the inner try, for the exception
\* e raised while the script ran
inner_except(e, query) ==
    IF ~isException(e) THEN propagates(e)
    ELSE IF e.tb = <<>>
      THEN outer_except([kind |-> "AttributeError",
                         msg |-> <<"'NoneType' object has no attribute 'tb_lineno'">>])
    ELSE LET line_no == e.tb[1].lineno IN
         IF line_no > Len(split(query))
         THEN outer_except([kind |-> "IndexError", msg |-> <<"list index out of range">>])
         ELSE returns(None, <<[kind |-> e.kind, msg |-> e.msg, line_no |-> line_no,
                               line |-> split(query)[line_no]]>>)

\* Python.run_query(query, user): what it hands back, and the instance's
\* sink and modules afterwards
run_query(sink, mods, serial, query) ==
    LET c == compile_restricted(query) IN
    IF c.exc # None
    THEN outer_except(c.exc[1])
           @@ [sink |-> sink, mods |-> mods, serial |-> serial, serialized |-> FALSE,
               raised |-> None, compiled |-> FALSE, result |-> None, printed |-> <<>>]
    ELSE LET x == exec(c.code, sink, mods, serial) IN
         (IF x.exc # None
          THEN inner_except(x.exc[1], query) @@ [serialized |-> FALSE]
          ELSE finish(x))
           @@ [sink |-> x.sink, mods |-> x.mods, serial |-> x.serial,
               raised |-> x.exc, compiled |-> TRUE, result |-> <<x.result>>,
               printed |-> x.printed]

RunQuery(query) ==
    /\ ncalls < MaxRuns
    /\ \E r \in {run_query(Sink, allowed_modules, next_handle, query)} :
         /\ enabled' = r.sink.enabled
         /\ lines' = r.sink.lines
         /\ allowed_modules' = r.mods
         /\ next_handle' = r.serial
         /\ last_run' = <<[query |-> query, returned |-> r.returned,
                           json_data |-> r.json_data, error |-> r.error,
                           leaves |-> r.leaves, raised |-> r.raised,
                           compiled |-> r.compiled, result |-> r.result,
                           printed |-> r.printed, serialized |-> r.serialized]>>
    /\ ncalls' = ncalls + 1
    /\ UNCHANGED <<written, loads, last_import, config, serVars>>

InitRun ==
    /\ config \in {<<>>, <<"os">>}
    /\ allowed_modules = Python_init(config)
    /\ next_handle = 1
    /\ enabled = CustomPrint_init.enabled
    /\ lines = CustomPrint_init.lines
    /\ written = <<>>
    /\ loads = <<>>
    /\ last_import = None
    /\ ncalls = 0
    /\ last_run = None
    /\ phase = "idle"
    /\ wire = None
    /\ df = None
    /\ out = None

NextRun == \E query \in Queries : RunQuery(query)

SpecRun == InitRun /\ [][NextRun]_vars

(***************************************************************************)
(* What the claims about a run speak of.                                   *)
(***************************************************************************)
R == last_run[1]

\* the script ran to its end without an exception
Finished == R.compiled /\ R.raised = None

\* the log attached to the result
Log == R.json_data[1][2].log

\* the line of the script on which the exception originated: the innermost
\* frame of the traceback that lies in the script
OriginLine(e) ==
    e.tb[CHOOSE i \in 1..Len(e.tb) :
            /\ e.tb[i].file = "<string>"
            /\ \A k \in (i + 1)..Len(e.tb) : e.tb[k].file # "<string>"].lineno

\* the text of line n of the script: what stands after n - 1 line breaks
LineAt(query, n) ==
    LET at == { i \in 1..Len(query) :
                  /\ query[i] # NL
                  /\ Cardinality({ k \in 1..(i - 1) : query[k] = NL }) = n - 1 }
    IN IF at = {} THEN <<>> ELSE <<query[CHOOSE i \in at : TRUE]>>

(***************************************************************************)
(* C1 as stated: every call of run_query returns a pair (json_data, error) *)
(* of which exactly one is non-null; nothing a run does leaves run_query   *)
(* as an exception.                                                        *)
(***************************************************************************)
C1_AlwaysReturnsPair ==
    last_run # None =>
      /\ R.returned
      /\ (R.json_data = None) # (R.error = None)

(***************************************************************************)
(* C3 as stated, for the exceptions "except Exception" catches: when the   *)
(* script raises, the run returns no result and an error made of the       *)
(* exception's kind, its message, the number of the script line where the  *)
(* exception originated and the text of that line.                         *)
(***************************************************************************)
C3_DiagnosticOfOrigin ==
    last_run # None /\ R.compiled /\ R.raised # None
    /\ isException(R.raised[1]) =>
      /\ R.returned
      /\ R.json_data = None
      /\ R.error # None
      /\ DOMAIN R.error[1] = {"kind", "msg", "line_no", "line"}
      /\ R.error[1].kind = R.raised[1].kind
      /\ R.error[1].msg = R.raised[1].msg
      /\ R.error[1].line_no = OriginLine(R.raised[1])
      /\ R.error[1].line = LineAt(R.query, OriginLine(R.raised[1]))

(***************************************************************************)
(* C4 as stated: the log of a successful run holds exactly the non-blank   *)
(* texts printed during that run, in order, and nothing captured during an *)
(* earlier run of the instance.                                            *)
(***************************************************************************)
C4_LogOfThisRun ==
    last_run # None /\ R.returned /\ R.json_data # None =>
      Log = SelectSeq(R.printed, NonBlank)

(***************************************************************************)
(* C5: a run hands back a result only if the script ended without an       *)
(* exception and result is then a DataFrame; if the script ended without   *)
(* an exception and result is anything else, the run returns no result and *)
(* the error "ValueError: result is not a pandas DataFrame", with no line, *)
(* and result_from_df is not called.                                       *)
(***************************************************************************)
C5_ResultMustBeDataFrame ==
    last_run # None =>
      /\ R.json_data # None => Finished /\ R.result[1][1] = "DataFrame"
      /\ Finished /\ R.result[1][1] # "DataFrame" =>
           /\ R.returned
           /\ R.json_data = None
           /\ R.error = <<[kind |-> "ValueError",
                           msg |-> <<"result is not a pandas DataFrame">>]>>
           /\ ~R.serialized

\* the script bound result to 1 and ended; the run failed on the type
C5_Witness ==
    /\ last_run # None
    /\ Finished
    /\ R.result = <<<<"int", 1>>>>
    /\ R.query = <<"print('a')", NL, "result = 1">>
    /\ R.json_data = None
    /\ R.error # None /\ R.error[1].kind = "ValueError"

====
